---------------------------- MODULE Spec2Model ----------------------------
(***************************************************************************)
(* A model of DRChoirBot (src/riri.py): the per-chat sleep/wake gate, the  *)
(* sliding-window rate limiter, the completion orchestrator with its one   *)
(* truncation retry, and the conversation store.                           *)
(*                                                                         *)
(* Texts are TLA+ strings; Len, SubSeq, Head, Tail and \o act on them as   *)
(* on sequences of characters, so the phrase matching, lower(), strip()    *)
(* and endswith() of the source are computed, not assumed.                 *)
(***************************************************************************)
EXTENDS Integers, Sequences, FiniteSets, TLC

(***************************************************************************)
(* Bounds of the model.                                                    *)
(***************************************************************************)
\* One hour (timedelta(hours=1)) is TicksPerHour ticks of the model clock.
TicksPerHour == 2
\* The clock stops advancing at MaxTime.
MaxTime == 2
\* Rate-limiter calls recorded per chat in one behaviour.
MaxRequests == 2
\* Rows one behaviour adds to the conversations table.
MaxTurns == 1
\* Turns of one chat the conversations table holds when a behaviour starts.
MaxSeed == 11
\* handle_message calls that can be suspended at the same time.
MaxHandlers == 2
\* Updates waiting in the application's update queue.
MaxInbox == 1

(***************************************************************************)
(* Program constants.                                                      *)
(***************************************************************************)
\* `len(self.request_tracker[chat_id]) >= 100`
RateLimit == 100
\* `len(messages) > 16`
PromptCap == 16
\* `messages[-15:]`
PromptTail == 15
\* `get_conversation_context(..., limit: int = 10)`
ContextLimit == 10
\* `len(generated_response) > 100`
TruncationLen == 100
\* `min(max_tokens * 2, 1500)`
RetryTokenCap == 1500

(***************************************************************************)
(* Python string operations.                                               *)
(***************************************************************************)
UpperToLower ==
    [A |-> "a", B |-> "b", C |-> "c", D |-> "d", E |-> "e", F |-> "f",
     G |-> "g", H |-> "h", I |-> "i", J |-> "j", K |-> "k", L |-> "l",
     M |-> "m", N |-> "n", O |-> "o", P |-> "p", Q |-> "q", R |-> "r",
     S |-> "s", T |-> "t", U |-> "u", V |-> "v", W |-> "w", X |-> "x",
     Y |-> "y", Z |-> "z"]

LowerChar(ch) ==
    IF ch \in DOMAIN UpperToLower THEN UpperToLower[ch] ELSE ch

RECURSIVE Lower(_)
\* str.lower()
Lower(s) ==
    IF s = "" THEN "" ELSE LowerChar(Head(s)) \o Lower(Tail(s))

Whitespace == {" ", "\n", "\t"}

RECURSIVE LStrip(_)
LStrip(s) ==
    IF s # "" /\ Head(s) \in Whitespace THEN LStrip(Tail(s)) ELSE s

RECURSIVE RStrip(_)
RStrip(s) ==
    IF s # "" /\ SubSeq(s, Len(s), Len(s)) \in Whitespace
    THEN RStrip(SubSeq(s, 1, Len(s) - 1))
    ELSE s

\* str.strip()
Strip(s) == RStrip(LStrip(s))

\* `w in s`
Contains(s, w) ==
    \E i \in 1..(Len(s) - Len(w) + 1) : SubSeq(s, i, i + Len(w) - 1) = w

\* s.startswith(p)
StartsWith(s, p) ==
    Len(p) <= Len(s) /\ SubSeq(s, 1, Len(p)) = p

\* s.endswith(p)
EndsWith(s, p) ==
    Len(p) <= Len(s) /\ SubSeq(s, Len(s) - Len(p) + 1, Len(s)) = p

(***************************************************************************)
(* Phrase tables and the matchers.                                         *)
(***************************************************************************)
sleep_words ==
    <<"thanks", "thank you", "bye", "goodbye", "good bye", "see you",
      "sleep", "rest", "goodnight", "good night", "that's all",
      "thats all", "enough", "done", "finish", "go to sleep",
      "sleep now", "rest now", "thanks riri", "bye riri",
      "goodnight riri", "good night riri", "shh", "shhh", "quiet",
      "silence", "hush", "zip it", "stop talking", "be quiet", "shut up",
      "enough riri", "stop riri", "quiet riri">>

wake_words ==
    <<"wake up", "wake", "hello", "hi", "hey", "good morning", "riri",
      "assistant", "choir assistant", "baby ri", "rena", "start",
      "begin", "continue", "come back", "wake up riri", "hello riri",
      "hi riri", "hey riri", "good morning riri">>

\* The loop body shared by check_sleep_command and check_wake_command.
PhraseMatches(word, message_lower) ==
    \/ word = message_lower
    \/ StartsWith(message_lower, word \o " ")
    \/ EndsWith(message_lower, " " \o word)
    \/ Contains(message_lower, word)

check_sleep_command(message_text) ==
    LET message_lower == Strip(Lower(message_text))
    IN  \E i \in 1..Len(sleep_words) : PhraseMatches(sleep_words[i], message_lower)

check_wake_command(message_text) ==
    LET message_lower == Strip(Lower(message_text))
    IN  \E i \in 1..Len(wake_words) : PhraseMatches(wake_words[i], message_lower)

(***************************************************************************)
(* Response complexity and token limits.                                   *)
(***************************************************************************)
complex_keywords ==
    <<"how to", "explain", "teach", "help me understand", "what is",
      "technique", "method", "practice", "exercise", "theory",
      "chord progression", "vocal", "singing", "music theory",
      "scripture", "bible", "steps", "guide", "training">>

simple_keywords ==
    <<"hello", "hi", "hey", "thanks", "okay", "got it", "yes", "no",
      "good", "great", "nice", "cool", "awesome">>

\* A classifier that looks for a simple keyword first.
determine_response_complexity_simple_first(message) ==
    LET message_lower == Lower(message)
    IN  IF \E i \in 1..Len(simple_keywords) :
              Contains(message_lower, simple_keywords[i])
        THEN "simple"
        ELSE IF \E i \in 1..Len(complex_keywords) :
                   Contains(message_lower, complex_keywords[i])
             THEN "complex"
             ELSE "medium"

determine_response_complexity(message) ==
    LET message_lower == Lower(message)
    IN  IF \E i \in 1..Len(complex_keywords) :
              Contains(message_lower, complex_keywords[i])
        THEN "complex"
        ELSE IF \E i \in 1..Len(simple_keywords) :
                   Contains(message_lower, simple_keywords[i])
             THEN "simple"
             ELSE "medium"

get_token_limit(chat_id, complexity) ==
    LET is_group_chat == chat_id < 0
    IN  IF complexity = "simple"
        THEN (IF is_group_chat THEN 150 ELSE 200)
        ELSE IF complexity = "medium"
             THEN (IF is_group_chat THEN 300 ELSE 500)
             ELSE (IF is_group_chat THEN 600 ELSE 1000)

(***************************************************************************)
(* The world the bot runs in.                                              *)
(***************************************************************************)
\* Telegram chat ids: positive for a private chat, negative for a group.
Chats == {1, -1}

\* context.bot.username (the handle the /info text advertises).
BotUsername == "DRChoirBot"

\* The sender of every update (update.effective_user).
Sender == [id |-> 7, username |-> "alto"]

\* message.text of the updates delivered to handle_message.  run() registers
\* the handler under filters.TEXT & ~filters.COMMAND, so the text is never
\* empty and never a command.
Texts ==
    {"Thanks Riri", " Bye ", "Hello", "What key", "@DRChoirBot explain"}

\* An update: its text, and whether it replies to a message of the bot
\* (message.reply_to_message.from_user.id == context.bot.id).
Messages == [text : Texts, reply_to_bot : BOOLEAN]

Long101 == "la la la la la la la la la la la la la la la la la la la la la la la la la la la la la la la la la la"
Long100 == "la la la la la la la la la la la la la la la la la la la la la la la la la la la la la la la la la l"

\* What one call of groq_client.chat.completions.create comes to: a content
\* string, a null content (strip() then raises), or an exception.
Completions ==
    {[kind |-> "ok", content |-> " Sure. "],
     [kind |-> "ok", content |-> "Wait..."],
     [kind |-> "ok", content |-> Long101],
     [kind |-> "ok", content |-> Long100],
     [kind |-> "ok", content |-> ""],
     [kind |-> "null", content |-> ""],
     [kind |-> "error", content |-> ""]}

SystemPrompt == "system_prompt"

Apology ==
    "Sorry, I'm having trouble responding right now. Please try again in a moment. If the problem persists, please contact Sir Aisosa."

WakeAck == "Hello. What's up?"

\* (The source puts an alarm-clock emoji before the text.)
RateNotice ==
    "Chat rate limit reached. Please wait a moment before asking again."

(***************************************************************************)
(* State.                                                                  *)
(***************************************************************************)
VARIABLES
    now,              \* datetime.now(), in ticks
    sleeping_chats,   \* self.sleeping_chats: chat_id -> is_sleeping
    request_tracker,  \* self.request_tracker: chat_id -> list of instants
    conversations,    \* the rows of table conversations, in insertion order
    ev,               \* what the last handler did: its input and its effects
    calls,            \* per chat, every check_rate_limit call of the behaviour
    preload,          \* per chat, requests granted at instant 0 before it
    seeded,           \* how many of the first rows were stored before it
    inbox,            \* the updates received and not yet dispatched
    flight,           \* the handle_message calls suspended at an await
    tie_break         \* the order this database gives rows of one timestamp

vars ==
    <<now, sleeping_chats, request_tracker, conversations, ev, calls, preload,
      seeded, inbox, flight, tie_break>>

\* dict.get(key, default)
Get(d, key, default) ==
    IF key \in DOMAIN d THEN d[key] ELSE default

\* d[key] = value
Put(d, key, value) ==
    [k \in DOMAIN d \cup {key} |-> IF k = key THEN value ELSE d[k]]

NoEvent ==
    [op |-> "none"]

\* The places for suspended handle_message calls, and an empty one.
Slots == 1..MaxHandlers

Idle ==
    [pc |-> "idle"]

(***************************************************************************)
(* The string functions of the source, tabulated over the texts of the     *)
(* model (each is computed once, from the operators above).                *)
(***************************************************************************)
IsSleepCommand == [t \in Texts |-> check_sleep_command(t)]

IsWakeCommand == [t \in Texts |-> check_wake_command(t)]

ComplexityOf == [t \in Texts |-> determine_response_complexity(t)]

\* `response.choices[0].message.content.strip()`
StrippedContent == [r \in Completions |-> Strip(r.content)]

(***************************************************************************)
(* Rate limiter.                                                           *)
(***************************************************************************)
\* A cleaning that keeps a request made exactly one hour ago.
IsRecentInclusive(req_time, t) ==
    req_time >= t - TicksPerHour

\* `req_time > hour_ago`
IsRecent(req_time, t) ==
    req_time > t - TicksPerHour

\* A limit test that lets one request too many through.
AtLimitOffByOne(window) ==
    Len(window) > RateLimit

\* `len(self.request_tracker[chat_id]) >= 100`
AtLimit(window) ==
    Len(window) >= RateLimit

\* A limiter that records the request before it tests the limit.
check_rate_limit_records_first(tracker, chat_id, t) ==
    LET created == IF chat_id \in DOMAIN tracker
                   THEN tracker
                   ELSE Put(tracker, chat_id, <<>>)
        cleaned == SelectSeq(created[chat_id], LAMBDA req_time : IsRecent(req_time, t))
        added   == [created EXCEPT ![chat_id] = Append(cleaned, t)]
    IN  [allowed |-> ~AtLimit(cleaned), tracker |-> added]

\* check_rate_limit at instant t: the value returned and the tracker it leaves.
check_rate_limit(tracker, chat_id, t) ==
    LET created == IF chat_id \in DOMAIN tracker
                   THEN tracker
                   ELSE Put(tracker, chat_id, <<>>)
        cleaned == SelectSeq(created[chat_id], LAMBDA req_time : IsRecent(req_time, t))
        pruned  == [created EXCEPT ![chat_id] = cleaned]
    IN  IF AtLimit(cleaned)
        THEN [allowed |-> FALSE, tracker |-> pruned]
        ELSE [allowed |-> TRUE,
              tracker |-> [pruned EXCEPT ![chat_id] = Append(cleaned, t)]]

(***************************************************************************)
(* Conversation store.                                                     *)
(***************************************************************************)
\* The rows of one chat, oldest first.
RowsOf(rows, chat_id) ==
    SelectSeq(rows, LAMBDA row : row.chat_id = chat_id)

\* s[-n:]
LastN(s, n) ==
    IF Len(s) <= n THEN s ELSE SubSeq(s, Len(s) - n + 1, Len(s))

RECURSIVE ExpandTurns(_)
\* The loop of get_conversation_context: each row becomes a user element and
\* an assistant element.
ExpandTurns(rows) ==
    IF rows = <<>>
    THEN <<>>
    ELSE <<[role |-> "user", content |-> Head(rows).message],
           [role |-> "assistant", content |-> Head(rows).response]>>
         \o ExpandTurns(Tail(rows))

\* SQL leaves open which of two rows with the same timestamp ORDER BY
\* timestamp puts first: in rowid order (what sqlite 3.40 does with this
\* table) or in the reverse order.
TieBreaks == {"rowid", "reverse"}

\* `ORDER BY timestamp DESC` on rows given in rowid order.
OrderByTimestampDesc(rows) ==
    LET n == Len(rows)
        Before(i, j) ==
            \/ rows[i].timestamp > rows[j].timestamp
            \/ /\ rows[i].timestamp = rows[j].timestamp
               /\ IF tie_break = "rowid" THEN i < j ELSE i > j
    IN  CHOOSE sorted \in
            {[p \in 1..n |-> rows[CHOOSE i \in 1..n : rank[i] = p]] :
                rank \in {[i \in 1..n |-> 1 + Cardinality({j \in 1..n : Before(j, i)})]}} :
            TRUE

\* `LIMIT ?`
Limit(s, n) ==
    IF Len(s) <= n THEN s ELSE SubSeq(s, 1, n)

\* reversed(messages)
Reversed(s) ==
    [i \in 1..Len(s) |-> s[Len(s) + 1 - i]]

\* The `limit` rows of the chat with the latest timestamps, latest last,
\* expanded (each stage is evaluated once and handed on as a value).
get_conversation_context(rows, chat_id, limit) ==
    CHOOSE context \in
        {ExpandTurns(Reversed(fetched)) :
            fetched \in {Limit(ordered, limit) :
                ordered \in {OrderByTimestampDesc(own) :
                    own \in {RowsOf(rows, chat_id)}}}} :
        TRUE

\* save_conversation: INSERT one row; its timestamp defaults to
\* CURRENT_TIMESTAMP, a whole second: rows stored at one instant of the
\* model are rows stored within the same second.
save_conversation(rows, chat_id, user_id, username, message, response, t) ==
    Append(rows, [chat_id |-> chat_id, user_id |-> user_id,
                  username |-> username, message |-> message,
                  response |-> response, timestamp |-> t])

(***************************************************************************)
(* Completion orchestrator.                                                *)
(***************************************************************************)
\* A truncation that keeps the oldest elements instead of the newest.
BuildPromptKeepsOldest(rows, message, chat_id) ==
    LET context  == get_conversation_context(rows, chat_id, ContextLimit)
        messages == <<[role |-> "system", content |-> SystemPrompt]>>
                    \o context
                    \o <<[role |-> "user", content |-> message]>>
    IN  IF Len(messages) > PromptCap
        THEN SubSeq(messages, 1, PromptCap)
        ELSE messages

\* The messages list handed to the completion interface.
BuildPrompt(rows, message, chat_id) ==
    LET context  == get_conversation_context(rows, chat_id, ContextLimit)
        messages == <<[role |-> "system", content |-> SystemPrompt]>>
                    \o context
                    \o <<[role |-> "user", content |-> message]>>
    IN  IF Len(messages) > PromptCap
        THEN SubSeq(messages, 1, 1) \o LastN(messages, PromptTail)
        ELSE messages

\* The condition of the truncation retry:
\*   endswith('...') or not endswith(('.', '!', '?', ':')) and len(...) > 100
SeemsTruncated(generated_response) ==
    \/ EndsWith(generated_response, "...")
    \/ /\ ~ \E mark \in {".", "!", "?", ":"} : EndsWith(generated_response, mark)
       /\ Len(generated_response) > TruncationLen

\* A retry budget that is doubled but not capped.
HigherLimitUncapped(max_tokens) ==
    max_tokens * 2

\* `min(max_tokens * 2, 1500)`
HigherLimit(max_tokens) ==
    IF max_tokens * 2 < RetryTokenCap THEN max_tokens * 2 ELSE RetryTokenCap

LooksTruncated == [r \in Completions |-> SeemsTruncated(StrippedContent[r])]

\* Only an exception of the call itself counts as a failure.
RaisesOnErrorOnly(completion) ==
    completion.kind = "error"

\* `response.choices[0].message.content.strip()` raises unless the call
\* returned a content string.
Raises(completion) ==
    completion.kind # "ok"

\* generate_response, the completion interface answering r1 to the first call
\* and r2 to the retry: the text returned, the calls made, in order, and the
\* context it read from the store.
generate_response(rows, message, chat_id, r1, r2) ==
    LET complexity == ComplexityOf[message]
        max_tokens == get_token_limit(chat_id, complexity)
        messages   == BuildPrompt(rows, message, chat_id)
        first      == [messages |-> messages, max_tokens |-> max_tokens]
        retry      == [messages |-> messages,
                       max_tokens |-> HigherLimit(max_tokens)]
        context    == get_conversation_context(rows, chat_id, ContextLimit)
    IN  IF Raises(r1)
        THEN [text |-> Apology, requests |-> <<first>>, context |-> context]
        ELSE IF LooksTruncated[r1]
             THEN IF Raises(r2)
                  THEN [text |-> Apology, requests |-> <<first, retry>>,
                        context |-> context]
                  ELSE [text |-> StrippedContent[r2],
                        requests |-> <<first, retry>>, context |-> context]
             ELSE [text |-> StrippedContent[r1], requests |-> <<first>>,
                   context |-> context]

(***************************************************************************)
(* handle_message.                                                         *)
(***************************************************************************)
\* `f"@{context.bot.username}" in message.text`
MentionsBot(text) ==
    Contains(text, "@" \o BotUsername)

HasMention == [t \in Texts |-> MentionsBot(t)]

\* A decision that wants every chat, private ones too, to address the bot.
ShouldRespondIfAddressed(chat_id, msg) ==
    \/ msg.reply_to_bot
    \/ HasMention[msg.text]
    \/ IsWakeCommand[msg.text]

\* A decision that answers everything.
ShouldRespondAlways(chat_id, msg) ==
    TRUE

\* A group decision that knows replies and mentions only.
ShouldRespondWithoutWake(chat_id, msg) ==
    IF chat_id > 0
    THEN TRUE
    ELSE \/ msg.reply_to_bot
         \/ HasMention[msg.text]

\* The should_respond decision of an awake chat.
ShouldRespond(chat_id, msg) ==
    IF chat_id > 0
    THEN TRUE
    ELSE \/ msg.reply_to_bot
         \/ HasMention[msg.text]
         \/ IsWakeCommand[msg.text]

\* message.reply_text(text, parse_mode=...)
Reply(chat_id, text, parse_mode) ==
    [chat_id |-> chat_id, text |-> text, parse_mode |-> parse_mode]

\* What a handle_message call that has done nothing yet has to show: its
\* input, the state it started in, and no effect.
Started(chat_id, msg, sleeping, tracker, rows) ==
    [op |-> "message", chat_id |-> chat_id, text |-> msg.text,
     reply_to_bot |-> msg.reply_to_bot,
     before |-> [sleeping |-> sleeping, tracker |-> tracker, rows |-> rows],
     sent |-> <<>>, typing |-> FALSE, rate |-> "skipped",
     requests |-> <<>>, answers |-> <<>>, context |-> <<>>,
     response |-> "", saved |-> FALSE,
     store_error |-> FALSE]

\* A sleep branch that returns without setting the flag.
GoToSleepKeepsFlag(sleeping, chat_id) ==
    sleeping

\* A sleep branch that puts every chat it knows to sleep.
GoToSleepEveryChat(sleeping, chat_id) ==
    [c \in DOMAIN Put(sleeping, chat_id, TRUE) |-> TRUE]

\* The sleep branch: `self.sleeping_chats[chat_id] = True; return`.
GoToSleep(sleeping, chat_id) ==
    Put(sleeping, chat_id, TRUE)

\* A wake branch that acknowledges but forgets to clear the flag.
WakeUpKeepsFlag(sleeping, chat_id) ==
    sleeping

\* The wake branch: `self.sleeping_chats[chat_id] = False`.
WakeUp(sleeping, chat_id) ==
    Put(sleeping, chat_id, FALSE)

\* A read of the flag that always finds the chat awake.
IsSleepingNever(sleeping, chat_id) ==
    FALSE

\* `is_sleeping = self.sleeping_chats.get(chat_id, False)`
IsSleeping(sleeping, chat_id) ==
    Get(sleeping, chat_id, FALSE)

\* The completion outcomes a generate_response call consumed.
Consumed(gen, r1, r2) ==
    IF Len(gen.requests) = 1 THEN <<r1>> ELSE <<r1, r2>>

\* What one INSERT ... commit() of save_conversation comes to: the row is
\* stored, or sqlite3 raises (a locked or full database).
StoreOutcomes == {"ok", "error"}

StoreRaises(w) ==
    w = "error"

\* A handler that generates the reply before it asks the rate limiter.
RespondGeneratesFirst(chat_id, msg, r1, r2, w, sleeping, tracker, rows, t, e) ==
    LET rl  == check_rate_limit(tracker, chat_id, t)
        gen == generate_response(rows, msg.text, chat_id, r1, r2)
    IN  IF ~rl.allowed
        THEN [sleeping |-> sleeping, tracker |-> rl.tracker, rows |-> rows,
              ev |-> [e EXCEPT !.rate = "denied",
                               !.requests = gen.requests,
                               !.sent = <<Reply(chat_id, RateNotice, "")>>]]
        ELSE [sleeping |-> sleeping, tracker |-> rl.tracker,
              rows |-> save_conversation(rows, chat_id, Sender.id,
                                         Sender.username, msg.text, gen.text, t),
              ev |-> [e EXCEPT !.rate = "allowed",
                               !.typing = TRUE,
                               !.requests = gen.requests,
                               !.response = gen.text,
                               !.saved = TRUE,
                               !.sent = <<Reply(chat_id, gen.text, "Markdown")>>]]

\* A handler whose denial branch sends the notice and does not return.
RespondGoesOnAfterNotice(chat_id, msg, r1, r2, w, sleeping, tracker, rows, t, e) ==
    LET rl     == check_rate_limit(tracker, chat_id, t)
        gen    == generate_response(rows, msg.text, chat_id, r1, r2)
        notice == IF rl.allowed THEN <<>> ELSE <<Reply(chat_id, RateNotice, "")>>
    IN  [sleeping |-> sleeping, tracker |-> rl.tracker,
         rows |-> save_conversation(rows, chat_id, Sender.id,
                                    Sender.username, msg.text, gen.text, t),
         ev |-> [e EXCEPT !.rate = IF rl.allowed THEN "allowed" ELSE "denied",
                          !.typing = TRUE,
                          !.requests = gen.requests,
                          !.answers = Consumed(gen, r1, r2),
                          !.context = gen.context,
                          !.response = gen.text,
                          !.saved = TRUE,
                          !.sent = Append(notice, Reply(chat_id, gen.text, "Markdown"))]]

\* The part of handle_message after should_respond: rate limiting, typing
\* indicator, generation, save, send.  save_conversation is awaited with no
\* try around it: when it raises, handle_message ends there, and the
\* exception goes to the application's error_handler, which logs it.
Respond(chat_id, msg, r1, r2, w, sleeping, tracker, rows, t, e) ==
    LET rl  == check_rate_limit(tracker, chat_id, t)
        gen == generate_response(rows, msg.text, chat_id, r1, r2)
    IN  IF ~rl.allowed
        THEN [sleeping |-> sleeping, tracker |-> rl.tracker, rows |-> rows,
              ev |-> [e EXCEPT !.rate = "denied",
                               !.sent = <<Reply(chat_id, RateNotice, "")>>]]
        ELSE IF StoreRaises(w)
        THEN [sleeping |-> sleeping, tracker |-> rl.tracker, rows |-> rows,
              ev |-> [e EXCEPT !.rate = "allowed",
                               !.typing = TRUE,
                               !.requests = gen.requests,
                               !.answers = Consumed(gen, r1, r2),
                               !.context = gen.context,
                               !.response = gen.text,
                               !.store_error = TRUE]]
        ELSE [sleeping |-> sleeping, tracker |-> rl.tracker,
              rows |-> save_conversation(rows, chat_id, Sender.id,
                                         Sender.username, msg.text, gen.text, t),
              ev |-> [e EXCEPT !.rate = "allowed",
                               !.typing = TRUE,
                               !.requests = gen.requests,
                               !.answers = Consumed(gen, r1, r2),
                               !.context = gen.context,
                               !.response = gen.text,
                               !.saved = TRUE,
                               !.sent = <<Reply(chat_id, gen.text, "Markdown")>>]]

\* A handler that tests the wake phrases before the sleep phrases.
handle_message_wake_first(chat_id, msg, r1, r2, w, sleeping, tracker, rows, t) ==
    LET user_message == msg.text
        is_sleeping  == IsSleeping(sleeping, chat_id)
        e            == Started(chat_id, msg, sleeping, tracker, rows)
        same         == [sleeping |-> sleeping, tracker |-> tracker,
                         rows |-> rows, ev |-> e]
    IN  IF user_message = ""
        THEN same
        ELSE IF IsWakeCommand[user_message] /\ is_sleeping
        THEN [same EXCEPT !.sleeping = WakeUp(sleeping, chat_id),
                          !.ev = [e EXCEPT !.sent = <<Reply(chat_id, WakeAck, "")>>]]
        ELSE IF IsSleepCommand[user_message]
        THEN [same EXCEPT !.sleeping = GoToSleep(sleeping, chat_id)]
        ELSE IF is_sleeping
        THEN same
        ELSE IF ~ShouldRespond(chat_id, msg)
        THEN same
        ELSE Respond(chat_id, msg, r1, r2, w, sleeping, tracker, rows, t, e)

\* handle_message for one update of chat chat_id at instant t: the state it
\* leaves and what it did.
handle_message(chat_id, msg, r1, r2, w, sleeping, tracker, rows, t) ==
    LET user_message == msg.text
        is_sleeping  == IsSleeping(sleeping, chat_id)
        e            == Started(chat_id, msg, sleeping, tracker, rows)
        same         == [sleeping |-> sleeping, tracker |-> tracker,
                         rows |-> rows, ev |-> e]
    IN  IF user_message = ""
        THEN same
        ELSE IF IsSleepCommand[user_message]
        THEN [same EXCEPT !.sleeping = GoToSleep(sleeping, chat_id)]
        ELSE IF IsWakeCommand[user_message] /\ is_sleeping
        THEN [same EXCEPT !.sleeping = WakeUp(sleeping, chat_id),
                          !.ev = [e EXCEPT !.sent = <<Reply(chat_id, WakeAck, "")>>]]
        ELSE IF is_sleeping
        THEN same
        ELSE IF ~ShouldRespond(chat_id, msg)
        THEN same
        ELSE Respond(chat_id, msg, r1, r2, w, sleeping, tracker, rows, t, e)

(***************************************************************************)
(* Actions.                                                                *)
(***************************************************************************)
\* The record of one check_rate_limit call.
LogCall(log, chat_id, e, t) ==
    IF e.rate = "skipped"
    THEN log
    ELSE [log EXCEPT ![chat_id] = Append(@, [at |-> t, allowed |-> e.rate = "allowed"])]

\* One update is handled, from start to return; r1 and r2 are what the
\* completion interface answers to the first call and to the retry, and w
\* what the store does with the INSERT.
HandleMessage(chat_id, msg, r1, r2, w) ==
    \E out \in {handle_message(chat_id, msg, r1, r2, w, sleeping_chats,
                               request_tracker, conversations, now)} :
        \E log \in {LogCall(calls, chat_id, out.ev, now)} :
            /\ Len(log[chat_id]) <= MaxRequests
            /\ Len(out.rows) - seeded <= MaxTurns
            /\ sleeping_chats' = out.sleeping
            /\ request_tracker' = out.tracker
            /\ conversations' = out.rows
            /\ ev' = out.ev
            /\ calls' = log
            /\ UNCHANGED <<tie_break, now, preload, seeded, inbox, flight>>

\* The completion interface is silent unless it is called.
NotCalled ==
    [kind |-> "unused", content |-> ""]

\* Whether handling msg in the current state calls the completion interface.
CallsCompletion(chat_id, msg) ==
    /\ ~IsSleepCommand[msg.text]
    /\ ~IsSleeping(sleeping_chats, chat_id)
    /\ ShouldRespond(chat_id, msg)
    /\ check_rate_limit(request_tracker, chat_id, now).allowed

\* The outcomes the first call can have, out of the set `outcomes`; none
\* when the table is full and the turn could not be stored.
FirstOutcomes(chat_id, msg, outcomes) ==
    IF CallsCompletion(chat_id, msg)
    THEN (IF Len(conversations) - seeded < MaxTurns THEN outcomes ELSE {})
    ELSE {NotCalled}

\* The outcomes the retry can have.
RetryOutcomes(r1, outcomes) ==
    IF r1 \in Completions /\ ~Raises(r1) /\ LooksTruncated[r1]
    THEN outcomes
    ELSE {NotCalled}

\* The outcomes the INSERT can have; it is reached when generate_response
\* has returned.
WriteOutcomes(r1, outcomes) ==
    IF r1 = NotCalled THEN {"unused"} ELSE outcomes

\* A store that accepts every write.
StoreWorks == {"ok"}

\* (The source puts a check-mark emoji before the text.)
ClearNotice == "Conversation history cleared for this chat!"

\* A DELETE that lost its WHERE clause.
delete_every_conversation(rows, chat_id) ==
    <<>>

\* `DELETE FROM conversations WHERE chat_id = ?`
delete_conversations(rows, chat_id) ==
    SelectSeq(rows, LAMBDA row : row.chat_id # chat_id)

\* clear_command: DELETE the rows of the chat, then confirm.
ClearCommand(chat_id) ==
    /\ conversations' = delete_conversations(conversations, chat_id)
    /\ seeded' = Len(delete_conversations(SubSeq(conversations, 1, seeded), chat_id))
    /\ ev' = [op |-> "clear", chat_id |-> chat_id,
              before |-> [sleeping |-> sleeping_chats,
                          tracker |-> request_tracker,
                          rows |-> conversations],
              sent |-> <<Reply(chat_id, ClearNotice, "")>>]
    /\ UNCHANGED <<tie_break, now, sleeping_chats, request_tracker, calls, preload,
                   inbox, flight>>

\* Time passes.
Tick ==
    /\ now < MaxTime
    /\ now' = now + 1
    /\ ev' = NoEvent
    /\ UNCHANGED <<tie_break, sleeping_chats, request_tracker, conversations, calls,
                   preload, seeded, inbox, flight>>

(***************************************************************************)
(* Spec: the bot from construction, every text; the completion interface   *)
(* answers with a complete text or fails, and the store accepts every      *)
(* write.  No window can fill up in it, so the clock stands still.         *)
(***************************************************************************)
GateCompletions ==
    {[kind |-> "ok", content |-> " Sure. "],
     [kind |-> "error", content |-> ""]}

\* The state after DRChoirBot.__init__.
Init ==
    /\ now = 0
    /\ sleeping_chats = <<>>
    /\ request_tracker = <<>>
    /\ conversations = <<>>
    /\ ev = NoEvent
    /\ calls = [c \in Chats |-> <<>>]
    /\ preload = [c \in Chats |-> 0]
    /\ seeded = 0
    /\ inbox = <<>>
    /\ flight = [s \in Slots |-> Idle]
    /\ tie_break = "rowid"

Next ==
    \/ \E chat_id \in Chats, msg \in Messages :
          \E r1 \in FirstOutcomes(chat_id, msg, GateCompletions) :
              \E r2 \in RetryOutcomes(r1, GateCompletions), w \in WriteOutcomes(r1, StoreWorks) :
                  HandleMessage(chat_id, msg, r1, r2, w)
    \/ \E chat_id \in Chats : ClearCommand(chat_id)

Spec == Init /\ [][Next]_vars

(***************************************************************************)
(* SpecGen: the completion orchestrator.  Every update is one that is      *)
(* answered, and the completion interface answers each call with any of    *)
(* its outcomes.                                                           *)
(***************************************************************************)
GenMessages == {[text |-> "@DRChoirBot explain", reply_to_bot |-> FALSE]}

NextGen ==
    \/ \E chat_id \in Chats, msg \in GenMessages :
          \E r1 \in FirstOutcomes(chat_id, msg, Completions) :
              \E r2 \in RetryOutcomes(r1, Completions), w \in WriteOutcomes(r1, StoreWorks) :
                  HandleMessage(chat_id, msg, r1, r2, w)
    \/ \E chat_id \in Chats : ClearCommand(chat_id)

SpecGen == Init /\ [][NextGen]_vars

(***************************************************************************)
(* SpecRate: the rate limiter under load.  A chat starts with a window of  *)
(* N requests granted at instant 0 (the state N answered updates followed  *)
(* by /clear leave), the clock advances, and every update is one that is   *)
(* answered.                                                               *)
(***************************************************************************)
PreloadCounts == {0, RateLimit - 1, RateLimit}

\* The window N requests granted at instant 0 leave.
PreloadedTracker(n) ==
    [c \in {k \in Chats : n[k] > 0} |-> [i \in 1..n[c] |-> 0]]

InitRate ==
    /\ now = 0
    /\ sleeping_chats = <<>>
    /\ preload \in [Chats -> PreloadCounts]
    /\ request_tracker = PreloadedTracker(preload)
    /\ conversations = <<>>
    /\ ev = NoEvent
    /\ calls = [c \in Chats |-> <<>>]
    /\ seeded = 0
    /\ inbox = <<>>
    /\ flight = [s \in Slots |-> Idle]
    /\ tie_break = "rowid"

RateMessages == {[text |-> "@DRChoirBot explain", reply_to_bot |-> FALSE]}

RateCompletions == {[kind |-> "ok", content |-> " Sure. "]}

NextRate ==
    \/ Tick
    \/ \E chat_id \in Chats, msg \in RateMessages :
          \E r1 \in FirstOutcomes(chat_id, msg, RateCompletions) :
              \E r2 \in RetryOutcomes(r1, RateCompletions), w \in WriteOutcomes(r1, StoreWorks) :
                  HandleMessage(chat_id, msg, r1, r2, w)
    \/ \E chat_id \in Chats : ClearCommand(chat_id)

SpecRate == InitRate /\ [][NextRate]_vars

(***************************************************************************)
(* SpecTurn: gate, rate limiter and orchestrator in one turn.  Every chat  *)
(* starts one request short of its limit, so that its first answered       *)
(* message is allowed and the next is denied.                              *)
(***************************************************************************)
\* A sleep phrase, a wake phrase, a mention, and a plain text sent as a
\* reply to the bot and on its own.
TurnMessages ==
    {[text |-> " Bye ", reply_to_bot |-> FALSE],
     [text |-> "Hello", reply_to_bot |-> FALSE],
     [text |-> "@DRChoirBot explain", reply_to_bot |-> FALSE],
     [text |-> "What key", reply_to_bot |-> TRUE],
     [text |-> "What key", reply_to_bot |-> FALSE]}

InitTurn ==
    /\ now = 0
    /\ sleeping_chats = <<>>
    /\ preload = [c \in Chats |-> RateLimit - 1]
    /\ request_tracker = PreloadedTracker(preload)
    /\ conversations = <<>>
    /\ ev = NoEvent
    /\ calls = [c \in Chats |-> <<>>]
    /\ seeded = 0
    /\ inbox = <<>>
    /\ flight = [s \in Slots |-> Idle]
    /\ tie_break = "rowid"

NextTurn ==
    \/ \E chat_id \in Chats, msg \in TurnMessages :
          \E r1 \in FirstOutcomes(chat_id, msg, GateCompletions) :
              \E r2 \in RetryOutcomes(r1, GateCompletions), w \in WriteOutcomes(r1, StoreWorks) :
                  HandleMessage(chat_id, msg, r1, r2, w)
    \/ \E chat_id \in Chats : ClearCommand(chat_id)

SpecTurn == InitTurn /\ [][NextTurn]_vars

(***************************************************************************)
(* SpecStore: the conversation store.  The table starts with the turns of  *)
(* earlier conversations (none, 7, 8 or MaxSeed per chat: the prompt holds *)
(* 16 elements with 7 stored turns and would hold more with 8), the        *)
(* database breaks ties of timestamps either way, and an INSERT may fail.  *)
(***************************************************************************)
Numerals ==
    <<"1", "2", "3", "4", "5", "6", "7", "8", "9", "10", "11", "12", "13">>

\* When the i-th earlier turn was stored: before instant 0, one turn after
\* the other, the first two within the same second.
SeedTime(i) ==
    (IF i = 1 THEN 2 ELSE i) - MaxSeed - 2

\* The i-th turn stored for a chat in an earlier conversation.
SeedRow(chat_id, i) ==
    [chat_id |-> chat_id, user_id |-> Sender.id, username |-> Sender.username,
     message |-> "q" \o Numerals[i], response |-> "a" \o Numerals[i],
     timestamp |-> SeedTime(i)]

RECURSIVE Interleave(_, _)
\* The rows of two chats in the order they were inserted: turn about.
Interleave(a, b) ==
    IF a = <<>> THEN b ELSE <<Head(a)>> \o Interleave(b, Tail(a))

SeedCounts == {0, 7, 8, MaxSeed}

\* The table n[c] earlier turns of each chat c leave.
SeededRows(n) ==
    Interleave([i \in 1..n[1] |-> SeedRow(1, i)],
               [i \in 1..n[-1] |-> SeedRow(-1, i)])

InitStore ==
    /\ now = 0
    /\ sleeping_chats = <<>>
    /\ request_tracker = <<>>
    /\ \E n \in [Chats -> SeedCounts] : conversations = SeededRows(n)
    /\ ev = NoEvent
    /\ calls = [c \in Chats |-> <<>>]
    /\ preload = [c \in Chats |-> 0]
    /\ seeded = Len(conversations)
    /\ inbox = <<>>
    /\ flight = [s \in Slots |-> Idle]
    /\ tie_break \in TieBreaks

StoreMessages ==
    {[text |-> "@DRChoirBot explain", reply_to_bot |-> FALSE],
     [text |-> " Bye ", reply_to_bot |-> FALSE]}

NextStore ==
    \/ \E chat_id \in Chats, msg \in StoreMessages :
          \E r1 \in FirstOutcomes(chat_id, msg, GateCompletions) :
              \E r2 \in RetryOutcomes(r1, GateCompletions), w \in WriteOutcomes(r1, StoreOutcomes) :
                  HandleMessage(chat_id, msg, r1, r2, w)
    \/ \E chat_id \in Chats : ClearCommand(chat_id)

SpecStore == InitStore /\ [][NextStore]_vars

(***************************************************************************)
(* SpecClassify: determine_response_complexity on its own.  The message is *)
(* put together from an opener, a core and a closer, so that keywords of   *)
(* either list occur alone, together, in capitals, inside longer words and *)
(* across the joints, or not at all.                                       *)
(***************************************************************************)
Openers == {"", "Please ", "HOW TO ", "Okay, ", "Th"}

Cores == {"tune the organ", "Explain rhythm", "is it", "anks", "Nice VOCAL run"}

Closers == {"", " now", " for the Bible study", "!", " tempo"}

ClassifyTexts ==
    {a \o b \o c : a \in Openers, b \in Cores, c \in Closers}
        \cup {"How to build a vocal warm-up routine", "Hi"}

InitClassify ==
    /\ now = 0
    /\ sleeping_chats = <<>>
    /\ request_tracker = <<>>
    /\ conversations = <<>>
    /\ \E t \in ClassifyTexts :
          ev = [op |-> "classify", message |-> t, complexity |-> "pending"]
    /\ calls = [c \in Chats |-> <<>>]
    /\ preload = [c \in Chats |-> 0]
    /\ seeded = 0
    /\ inbox = <<>>
    /\ flight = [s \in Slots |-> Idle]
    /\ tie_break = "rowid"

\* `complexity = self.determine_response_complexity(message)`
Classify ==
    /\ ev.op = "classify"
    /\ ev.complexity = "pending"
    /\ ev' = [ev EXCEPT !.complexity = determine_response_complexity(ev.message)]
    /\ UNCHANGED <<tie_break, now, sleeping_chats, request_tracker, conversations, calls,
                   preload, seeded, inbox, flight>>

NextClassify == Classify

SpecClassify == InitClassify /\ [][NextClassify]_vars

(***************************************************************************)
(* handle_message step by step.  A coroutine runs until it awaits          *)
(* something that is not ready; in handle_message that is a call over the  *)
(* network: reply_text, send_chat_action, and the completion calls inside  *)
(* generate_response.  check_sleep_command, check_wake_command,            *)
(* check_rate_limit and save_conversation await nothing and the sqlite3    *)
(* calls block, so they run within the step that reaches them.             *)
(***************************************************************************)
\* The suspended calls.
Busy(fl) ==
    {s \in Slots : fl[s].pc # "idle"}

\* A dispatcher that starts the handler of an update while others are
\* suspended (an Application built with concurrent_updates).
CanDispatchConcurrently(fl) ==
    TRUE

\* run() builds the Application without concurrent_updates and registers
\* handle_message as a blocking handler: the application awaits the handler
\* of one update before it takes the next update from its queue.
CanDispatch(fl) ==
    Busy(fl) = {}

\* The slot a new call is put in.
FreeSlot(fl) ==
    CHOOSE s \in Slots \ Busy(fl) : \A s2 \in Slots \ Busy(fl) : s <= s2

\* A handle_message call suspended at the await called pc, and what it has
\* done so far.
Suspended(pc, chat_id, msg, steps) ==
    [pc |-> pc, chat_id |-> chat_id, text |-> msg.text,
     reply_to_bot |-> msg.reply_to_bot, messages |-> <<>>, max_tokens |-> 0,
     response |-> "", steps |-> steps]

\* handle_message from its first line to its first await of the network, or
\* to its return: the state it leaves and the call left suspended, if any.
begin_message(chat_id, msg, sleeping, tracker, t) ==
    LET user_message == msg.text
        is_sleeping  == IsSleeping(sleeping, chat_id)
        rl           == check_rate_limit(tracker, chat_id, t)
        same         == [sleeping |-> sleeping, tracker |-> tracker,
                         handler |-> Idle, rate |-> "skipped"]
    IN  IF user_message = ""
        THEN same
        ELSE IF IsSleepCommand[user_message]
        THEN [same EXCEPT !.sleeping = GoToSleep(sleeping, chat_id)]
        ELSE IF IsWakeCommand[user_message] /\ is_sleeping
        THEN [same EXCEPT !.sleeping = WakeUp(sleeping, chat_id),
                          !.handler = Suspended("ack", chat_id, msg, <<>>)]
        ELSE IF is_sleeping
        THEN same
        ELSE IF ~ShouldRespond(chat_id, msg)
        THEN same
        ELSE IF ~rl.allowed
        THEN [same EXCEPT !.tracker = rl.tracker,
                          !.rate = "denied",
                          !.handler = Suspended("notice", chat_id, msg,
                                                <<"rate:denied">>)]
        ELSE [same EXCEPT !.tracker = rl.tracker,
                          !.rate = "allowed",
                          !.handler = Suspended("typing", chat_id, msg,
                                                <<"rate:allowed">>)]

\* A handler that sends the reply without saving the turn.
after_generation_without_save(h, response, w, rows) ==
    [rows |-> rows, store_error |-> FALSE,
     handler |-> [h EXCEPT !.pc = "reply", !.response = response]]

\* handle_message from the return of generate_response to the await of
\* reply_text: the turn is saved, unless the INSERT raises and ends the call.
after_generation(h, response, w, rows) ==
    IF StoreRaises(w)
    THEN [rows |-> rows, store_error |-> TRUE,
          handler |-> [h EXCEPT !.pc = "idle", !.response = response,
                                !.steps = Append(@, "store")]]
    ELSE [rows |-> save_conversation(rows, h.chat_id, Sender.id,
                                     Sender.username, h.text, response, now),
          store_error |-> FALSE,
          handler |-> [h EXCEPT !.pc = "reply", !.response = response,
                                !.steps = Append(@, "store")]]

\* What one step of a handle_message call has to show: the chat it belongs
\* to, the maps and the store it found, what the call has done so far and
\* what the step sent.
Step(name, chat_id, text, steps, sent, store_error) ==
    [op |-> "step", step |-> name, chat_id |-> chat_id, text |-> text,
     before |-> [sleeping |-> sleeping_chats, tracker |-> request_tracker,
                 rows |-> conversations],
     steps |-> steps, sent |-> sent, store_error |-> store_error]

\* Telegram delivers an update; it waits in the application's queue.
Arrive(chat_id, msg) ==
    /\ Len(inbox) < MaxInbox
    /\ inbox' = Append(inbox, [chat_id |-> chat_id, msg |-> msg])
    /\ ev' = [op |-> "arrive", chat_id |-> chat_id]
    /\ UNCHANGED <<tie_break, now, sleeping_chats, request_tracker, conversations, calls,
                   preload, seeded, flight>>

\* handle_message is called with the next update and runs up to its first
\* suspension.
Take(s) ==
    /\ inbox # <<>>
    /\ Busy(flight) # Slots
    /\ s = FreeSlot(flight)
    /\ \E u \in {Head(inbox)} :
          \E out \in {begin_message(u.chat_id, u.msg, sleeping_chats,
                                    request_tracker, now)} :
              \E log \in {LogCall(calls, u.chat_id, out, now)} :
                  /\ Len(log[u.chat_id]) <= MaxRequests
                  /\ out.rate = "allowed" => Len(conversations) - seeded < MaxTurns
                  /\ inbox' = Tail(inbox)
                  /\ sleeping_chats' = out.sleeping
                  /\ request_tracker' = out.tracker
                  /\ flight' = [flight EXCEPT ![s] = out.handler]
                  /\ calls' = log
                  /\ ev' = Step("dispatch", u.chat_id, u.msg.text,
                                IF out.handler = Idle THEN <<>> ELSE out.handler.steps,
                                <<>>, FALSE)
    /\ UNCHANGED <<tie_break, now, conversations, preload, seeded>>

\* The application takes the next update once the call for the one before
\* has returned.
Dispatch(s) ==
    /\ CanDispatch(flight)
    /\ Take(s)

\* send_chat_action returns; generate_response builds the prompt and
\* awaits the completion interface.
AfterTyping(s) ==
    /\ flight[s].pc = "typing"
    /\ \E h \in {flight[s]} :
          \E g \in {[h EXCEPT
                       !.pc = "completion",
                       !.messages = BuildPrompt(conversations, h.text, h.chat_id),
                       !.max_tokens = get_token_limit(h.chat_id, ComplexityOf[h.text]),
                       !.steps = @ \o <<"typing", "generate">>]} :
              /\ flight' = [flight EXCEPT ![s] = g]
              /\ ev' = Step("typing", h.chat_id, h.text, g.steps, <<>>, FALSE)
    /\ UNCHANGED <<tie_break, now, sleeping_chats, request_tracker, conversations, calls,
                   preload, seeded, inbox>>

\* generate_response has its text; the turn is saved and the reply handed
\* to the transport.
Generated(s, response, w) ==
    \E out \in {after_generation(flight[s], response, w, conversations)} :
        /\ Len(out.rows) - seeded <= MaxTurns
        /\ conversations' = out.rows
        /\ flight' = [flight EXCEPT ![s] = IF out.handler.pc = "idle"
                                           THEN Idle
                                           ELSE out.handler]
        /\ ev' = Step("generated", out.handler.chat_id, out.handler.text,
                      out.handler.steps, <<>>, out.store_error)
        /\ UNCHANGED <<tie_break, now, sleeping_chats, request_tracker, calls, preload,
                       seeded, inbox>>

\* The first completion call returns r.
AfterCompletion(s, r, w) ==
    /\ flight[s].pc = "completion"
    /\ IF Raises(r)
       THEN Generated(s, Apology, w)
       ELSE IF LooksTruncated[r]
       THEN /\ flight' = [flight EXCEPT ![s].pc = "retry",
                                        ![s].max_tokens = HigherLimit(@)]
            /\ ev' = Step("completion", flight[s].chat_id, flight[s].text,
                          flight[s].steps, <<>>, FALSE)
            /\ UNCHANGED <<tie_break, now, sleeping_chats, request_tracker, conversations,
                           calls, preload, seeded, inbox>>
       ELSE Generated(s, StrippedContent[r], w)

\* The retry returns r.
AfterRetry(s, r, w) ==
    /\ flight[s].pc = "retry"
    /\ IF Raises(r)
       THEN Generated(s, Apology, w)
       ELSE Generated(s, StrippedContent[r], w)

\* What a call suspended in reply_text is sending.
Outbound(h) ==
    IF h.pc = "ack"
    THEN Reply(h.chat_id, WakeAck, "")
    ELSE IF h.pc = "notice"
    THEN Reply(h.chat_id, RateNotice, "")
    ELSE Reply(h.chat_id, h.response, "Markdown")

\* reply_text returns: the text is out and handle_message returns.
Delivered(s) ==
    /\ flight[s].pc \in {"ack", "notice", "reply"}
    /\ flight' = [flight EXCEPT ![s] = Idle]
    /\ ev' = Step("delivered", flight[s].chat_id, flight[s].text,
                  Append(flight[s].steps, "send:" \o flight[s].pc),
                  <<Outbound(flight[s])>>, FALSE)
    /\ UNCHANGED <<tie_break, now, sleeping_chats, request_tracker, conversations, calls,
                   preload, seeded, inbox>>

(***************************************************************************)
(* SpecConc: every chat one request short of its limit, the updates queued *)
(* and the handlers run step by step.                                      *)
(***************************************************************************)
ConcMessages ==
    {[text |-> "@DRChoirBot explain", reply_to_bot |-> FALSE],
     [text |-> "Hello", reply_to_bot |-> FALSE],
     [text |-> " Bye ", reply_to_bot |-> FALSE]}

ConcCompletions ==
    {[kind |-> "ok", content |-> " Sure. "],
     [kind |-> "ok", content |-> "Wait..."],
     [kind |-> "error", content |-> ""]}

NextConc ==
    \/ \E chat_id \in Chats, msg \in ConcMessages : Arrive(chat_id, msg)
    \/ \E s \in Slots : Dispatch(s)
    \/ \E s \in Slots : AfterTyping(s)
    \/ \E s \in Slots, r \in ConcCompletions, w \in StoreOutcomes :
          AfterCompletion(s, r, w)
    \/ \E s \in Slots, r \in ConcCompletions, w \in StoreOutcomes :
          AfterRetry(s, r, w)
    \/ \E s \in Slots : Delivered(s)

SpecConc == InitTurn /\ [][NextConc]_vars

(***************************************************************************)
(* SpecOverlap: the same handlers when the application does not wait for   *)
(* one call to return before it takes the next update, as an Application   *)
(* built with concurrent_updates does; calls, of one chat or of several,   *)
(* then interleave at their awaits.  Every behaviour of SpecConc is one of *)
(* SpecOverlap.                                                            *)
(***************************************************************************)
OverlapCompletions ==
    {[kind |-> "ok", content |-> "Wait..."],
     [kind |-> "error", content |-> ""]}

NextOverlap ==
    \/ \E chat_id \in Chats, msg \in ConcMessages : Arrive(chat_id, msg)
    \/ \E s \in Slots : Take(s)
    \/ \E s \in Slots : AfterTyping(s)
    \/ \E s \in Slots, r \in OverlapCompletions, w \in StoreOutcomes :
          AfterCompletion(s, r, w)
    \/ \E s \in Slots, r \in OverlapCompletions, w \in StoreOutcomes :
          AfterRetry(s, r, w)
    \/ \E s \in Slots : Delivered(s)

SpecOverlap == InitTurn /\ [][NextOverlap]_vars

(***************************************************************************)
(* Properties.                                                             *)
(***************************************************************************)
\* The last step was handle_message.
Handled == ev.op = "message"

\* The chat of the last update was Asleep when the handler started.
WasAsleep == Get(ev.before.sleeping, ev.chat_id, FALSE)

\* The chat of the last update is Asleep now.
IsAsleep == Get(sleeping_chats, ev.chat_id, FALSE)

\* The last update matched a sleep phrase / a wake phrase.
MatchedSleep == IsSleepCommand[ev.text]

MatchedWake == IsWakeCommand[ev.text]

\* All the handler sent is the fixed acknowledgment.
OnlyAcknowledged ==
    /\ ev.sent = <<Reply(ev.chat_id, WakeAck, "")>>
    /\ ev.requests = <<>>

\* C1 as stated: whenever a message matching a wake phrase is handled for
\* an Asleep chat, the chat becomes Awake, the only outbound text is
\* "Hello. What's up?" and the completion interface is not invoked.
C1_AsStated ==
    (Handled /\ WasAsleep /\ MatchedWake)
        => (~IsAsleep /\ OnlyAcknowledged)

\* C1 (amended): whenever a message matching a wake phrase and no sleep
\* phrase is handled for an Asleep chat, the chat becomes Awake, the only
\* outbound text is "Hello. What's up?" and the completion interface is not
\* invoked.
C1_WakeAcknowledged ==
    (Handled /\ WasAsleep /\ MatchedWake /\ ~MatchedSleep)
        => (~IsAsleep /\ OnlyAcknowledged)

\* An Asleep chat has just been woken by a wake-only message.
C1_Witness ==
    /\ Handled /\ WasAsleep /\ MatchedWake /\ ~MatchedSleep
    /\ ~IsAsleep
    /\ ev.sent # <<>>

\* C2: whenever a message matching a sleep phrase is handled for an Awake
\* chat, the chat becomes Asleep, nothing is sent, and nothing downstream
\* runs: the rate windows are as before, the completion interface is not
\* invoked and no row is written.
C2_SleepIsSilent ==
    (Handled /\ ~WasAsleep /\ MatchedSleep)
        => /\ IsAsleep
           /\ ev.sent = <<>>
           /\ ~ev.typing
           /\ ev.rate = "skipped"
           /\ request_tracker = ev.before.tracker
           /\ ev.requests = <<>>
           /\ ~ev.saved
           /\ conversations = ev.before.rows

\* An Awake chat with a row in the table has just been put to sleep.
C2_Witness ==
    /\ Handled /\ ~WasAsleep /\ MatchedSleep
    /\ IsAsleep
    /\ conversations # <<>>

\* C3: whenever a message matching no wake phrase is handled for an Asleep
\* chat, nothing is sent to the chat, no row is written and the chat stays
\* Asleep, whatever was handled before.
C3_AsleepStaysSilent ==
    (Handled /\ WasAsleep /\ ~MatchedWake)
        => /\ ev.sent = <<>>
           /\ ev.requests = <<>>
           /\ ~ev.saved
           /\ conversations = ev.before.rows
           /\ IsAsleep

\* An Asleep chat has just ignored a message that matches neither phrase
\* set and mentions the bot, after an earlier turn was answered.
C3_Witness ==
    /\ Handled /\ WasAsleep /\ ~MatchedWake /\ ~MatchedSleep
    /\ HasMention[ev.text]
    /\ IsAsleep
    /\ conversations # <<>>

\* The requests granted to chat c before its k-th check of this behaviour
\* that were at most maxAge ticks old at that check.
GrantsAged(c, k, maxAge) ==
    (IF calls[c][k].at <= maxAge THEN preload[c] ELSE 0)
    + Cardinality({j \in 1..(k - 1) :
                     /\ calls[c][j].allowed
                     /\ calls[c][k].at - calls[c][j].at <= maxAge})

C5_WindowBounded ==
    \A c \in DOMAIN request_tracker :
        /\ Len(request_tracker[c]) <= RateLimit
        /\ calls[c] # <<>> =>
              \A i \in 1..Len(request_tracker[c]) :
                  request_tracker[c][i] > calls[c][Len(calls[c])].at - TicksPerHour

\* A check has just filled one chat's window to 100, and another chat's
\* check has dropped a window of old requests.
C5_Witness ==
    /\ \E c \in DOMAIN request_tracker :
          /\ calls[c] # <<>>
          /\ calls[c][Len(calls[c])].allowed
          /\ Len(request_tracker[c]) = RateLimit
    /\ \E c \in DOMAIN request_tracker :
          /\ calls[c] # <<>>
          /\ preload[c] > 0
          /\ Len(request_tracker[c]) = 1

\* The number of timestamps of window w that the cleaning at instant t keeps.
RecentCount(w, t) ==
    Cardinality({i \in 1..Len(w) : w[i] > t - TicksPerHour})

\* C6: whenever check_rate_limit runs on a window whose cleaned count is at
\* least 100, it returns false and the tracker is the same after the call as
\* before: the attempted request is not recorded.
C6_DenialLeavesWindow ==
    (/\ Handled
     /\ ev.rate # "skipped"
     /\ RecentCount(Get(ev.before.tracker, ev.chat_id, <<>>), now) >= RateLimit)
        => /\ ev.rate = "denied"
           /\ request_tracker = ev.before.tracker

\* A request has just been denied on a full window.
C6_Witness ==
    /\ Handled
    /\ ev.rate = "denied"
    /\ Len(ev.before.tracker[ev.chat_id]) = RateLimit
    /\ request_tracker = ev.before.tracker

\* The last update matched neither phrase set.
MatchedNeither == ~MatchedSleep /\ ~MatchedWake

\* The last update as handle_message received it.
LastMessage == [text |-> ev.text, reply_to_bot |-> ev.reply_to_bot]

\* C7: whenever a message matching neither a sleep nor a wake phrase is
\* handled for an Awake private chat, should_respond is true and the
\* message is handed to the rate limiter, whether or not it mentions the bot
\* or replies to it.
C7_PrivateAlwaysResponds ==
    (Handled /\ ev.chat_id > 0 /\ ~WasAsleep /\ MatchedNeither)
        => /\ ShouldRespond(ev.chat_id, LastMessage)
           /\ ev.rate \in {"allowed", "denied"}
           /\ calls[ev.chat_id] # <<>>

\* An Awake private chat has just had a plain message, no mention and no
\* reply, checked by the rate limiter and answered.
C7_Witness ==
    /\ Handled /\ ev.chat_id > 0 /\ ~WasAsleep /\ MatchedNeither
    /\ ~HasMention[ev.text] /\ ~ev.reply_to_bot
    /\ ev.rate = "allowed"
    /\ ev.sent # <<>>

\* C8: whenever a message that matches neither phrase set, is no reply to
\* the bot and does not contain its handle is handled for an Awake group
\* chat, nothing is sent, and the sleep flags, the rate windows and the
\* conversation table are as before.
C8_GroupIgnoresUnaddressed ==
    (/\ Handled /\ ev.chat_id < 0 /\ ~WasAsleep /\ MatchedNeither
     /\ ~ev.reply_to_bot /\ ~HasMention[ev.text])
        => /\ ev.sent = <<>>
           /\ ~ev.typing
           /\ ev.requests = <<>>
           /\ sleeping_chats = ev.before.sleeping
           /\ request_tracker = ev.before.tracker
           /\ conversations = ev.before.rows

\* An Awake group chat that has a window and a row has just ignored an
\* unaddressed message.
C8_Witness ==
    /\ Handled /\ ev.chat_id < 0 /\ ~WasAsleep /\ MatchedNeither
    /\ ~ev.reply_to_bot /\ ~HasMention[ev.text]
    /\ ev.chat_id \in DOMAIN request_tracker
    /\ conversations # <<>>
    /\ ev.sent = <<>>

\* A completion text looks truncated: it ends with "...", or is longer than
\* 100 characters and ends with none of '.', '!', '?', ':'.
SeemsCutOff(text) ==
    \/ EndsWith(text, "...")
    \/ /\ Len(text) > TruncationLen
       /\ ~EndsWith(text, ".") /\ ~EndsWith(text, "!")
       /\ ~EndsWith(text, "?") /\ ~EndsWith(text, ":")

\* The smaller of two numbers.
Min(a, b) == IF a < b THEN a ELSE b

\* C9: whenever generate_response has run, it has called the completion
\* interface at most twice; and if the first completion looked truncated it
\* has called it exactly twice, the second time with the same prompt and
\* the budget min(2 * budget, 1500), and returned the text of the retry
\* whatever that text looks like.
C9_OneRetry ==
    (Handled /\ ev.requests # <<>>)
        => /\ Len(ev.requests) <= 2
           /\ (/\ ev.answers[1].kind = "ok"
               /\ SeemsCutOff(Strip(ev.answers[1].content)))
                 => /\ Len(ev.requests) = 2
                    /\ ev.requests[2].messages = ev.requests[1].messages
                    /\ ev.requests[2].max_tokens
                         = Min(2 * ev.requests[1].max_tokens, RetryTokenCap)
                    /\ ev.answers[2].kind = "ok"
                         => ev.response = Strip(ev.answers[2].content)

\* A first completion ending in "..." has just been retried with the capped
\* budget, and the retry's text, itself cut off, was returned.
C9_Witness ==
    /\ Handled
    /\ Len(ev.requests) = 2
    /\ ev.answers[1].content = "Wait..."
    /\ ev.requests[1].max_tokens = 1000
    /\ ev.requests[2].max_tokens = RetryTokenCap
    /\ ev.answers[2].content = Long101
    /\ ev.response = Long101

\* Attempt i of the last generate_response call failed.
Failed(i) == ev.answers[i].kind # "ok"

\* C10: whenever the completion interface has failed in a generate_response
\* call, at the first attempt or at the retry, the call returned the fixed
\* apology, the failed attempt was its last one, and handle_message went on
\* as for any reply: it stored the turn and sent the apology.
C10_FailureBecomesApology ==
    (Handled /\ \E i \in 1..Len(ev.answers) : Failed(i))
        => /\ ev.response = Apology
           /\ Failed(Len(ev.answers))
           /\ \A i \in 1..(Len(ev.answers) - 1) : ~Failed(i)
           /\ Len(ev.requests) = Len(ev.answers)
           /\ ev.saved
           /\ ev.sent = <<Reply(ev.chat_id, Apology, "Markdown")>>

\* The retry of a truncated completion has just failed, and the apology was
\* sent.
C10_Witness ==
    /\ Handled
    /\ Len(ev.answers) = 2
    /\ ~Failed(1) /\ Failed(2)
    /\ ev.response = Apology
    /\ ev.sent # <<>>

\* The last handler's INSERT raised.
StoreFailed == Handled /\ ev.store_error

\* C11: whenever the conversation store fails to write an answered turn,
\* the failure is swallowed and the generated reply is still sent to the
\* chat.
C11_StoreFailureSwallowed ==
    StoreFailed => ev.sent = <<Reply(ev.chat_id, ev.response, "Markdown")>>

\* C12: in every reachable state every row of the conversation store has a
\* non-empty message and a non-empty response, whatever text the completion
\* interface returned.
C12_TurnsNonEmpty ==
    \A i \in 1..Len(conversations) :
        /\ conversations[i].message # ""
        /\ conversations[i].response # ""

\* The last step was clear_command.
Cleared == ev.op = "clear"

\* The turns of chat c among rows, in order.
TurnsOf(rows, c) ==
    SelectSeq(rows, LAMBDA row : row.chat_id = c)

\* C13: whenever clear_command has run for a chat, no turn of that chat is
\* left in the store, the turns of every other chat are the same as before,
\* and the sleep flags and the rate windows are unchanged.
C13_ClearRemovesOwnTurns ==
    Cleared
        => /\ TurnsOf(conversations, ev.chat_id) = <<>>
           /\ \A c \in Chats \ {ev.chat_id} :
                  TurnsOf(conversations, c) = TurnsOf(ev.before.rows, c)
           /\ sleeping_chats = ev.before.sleeping
           /\ request_tracker = ev.before.tracker

\* A chat with stored turns has just been cleared while the other chat had
\* turns too, a chat was asleep and a rate window was in use.
C13_Witness ==
    /\ Cleared
    /\ TurnsOf(ev.before.rows, ev.chat_id) # <<>>
    /\ conversations # <<>>
    /\ \E c \in DOMAIN sleeping_chats : sleeping_chats[c]
    /\ \E c \in DOMAIN request_tracker : request_tracker[c] # <<>>

\* determine_response_complexity has classified the message.
Classified == ev.op = "classify" /\ ev.complexity # "pending"

\* Some keyword of the list is a substring of the lowercased text.
HasKeyword(keywords, text) ==
    \E i \in 1..Len(keywords) : Contains(Lower(text), keywords[i])

\* C14: the class determine_response_complexity returns is "complex" iff
\* some complex keyword is a substring of the lowercased message, else
\* "simple" iff some simple keyword is, else "medium"; a message with
\* keywords of both lists is "complex", "How to build a vocal warm-up
\* routine" is "complex" and "Hi" is "simple".
C14_FirstMatchWins ==
    Classified
        => /\ ev.complexity = "complex"
                <=> HasKeyword(complex_keywords, ev.message)
           /\ ev.complexity = "simple"
                <=> /\ ~HasKeyword(complex_keywords, ev.message)
                    /\ HasKeyword(simple_keywords, ev.message)
           /\ ev.complexity = "medium"
                <=> /\ ~HasKeyword(complex_keywords, ev.message)
                    /\ ~HasKeyword(simple_keywords, ev.message)
           /\ ev.message = "How to build a vocal warm-up routine"
                => ev.complexity = "complex"
           /\ ev.message = "Hi" => ev.complexity = "simple"
           /\ ev.message = "Okay, Nice VOCAL run" => ev.complexity = "complex"
           /\ ev.message = "Thanks" => ev.complexity = "simple"
           /\ ev.message = "Please is it tempo" => ev.complexity = "medium"

\* A message holding the simple keywords "okay" and "nice" and, in capitals,
\* the complex keyword "vocal" has been classified "complex".
C14_Witness ==
    /\ Classified
    /\ ev.message = "Okay, Nice VOCAL run"
    /\ HasKeyword(simple_keywords, ev.message)
    /\ ev.complexity = "complex"

\* The last step was one of a handle_message call run step by step.
Stepped == ev.op = "step"

\* The suspended calls of chat c.
InFlight(c) ==
    {s \in Slots : flight[s].pc # "idle" /\ flight[s].chat_id = c}

\* C15: at any time at most one handle_message call per chat is in flight;
\* the flag of a chat with a suspended call is still the one that call
\* acted on (Awake: read so, or set so by the wake branch); and every step
\* in which a call went on after a suspension (typing, generation, store
\* write, send) found the flag so.
C15_OneDecisionInFlight ==
    /\ \A c \in Chats : Cardinality(InFlight(c)) <= 1
    /\ \A s \in Busy(flight) : ~IsSleeping(sleeping_chats, flight[s].chat_id)
    /\ (Stepped /\ ev.step # "dispatch")
          => ~IsSleeping(ev.before.sleeping, ev.chat_id)

\* A call is suspended in the completion interface while a sleep phrase for
\* the same chat waits in the queue.
C15_Witness ==
    /\ \E s \in Slots :
          /\ flight[s].pc = "completion"
          /\ inbox # <<>>
          /\ Head(inbox).chat_id = flight[s].chat_id
          /\ IsSleepCommand[Head(inbox).msg.text]

\* The window the rate limiter leaves when it grants a request at instant t
\* on window w: the timestamps newer than one hour, and t.
Granted(w, t) ==
    Append(SelectSeq(w, LAMBDA req_time : req_time > t - TicksPerHour), t)

\* C16: whenever the completion interface has been called for a message,
\* the chat was Awake, the message was one to respond to (no sleep phrase;
\* a private chat, or a reply to the bot, a mention or a wake phrase), the
\* rate limiter had returned true for it on a window below the limit, and
\* after the handler the sleep flags are the ones it found and the rate
\* windows the ones the rate limiter left: generate_response changed none.
C16_GenerationAfterApproval ==
    (Handled /\ ev.requests # <<>>)
        => /\ ~WasAsleep
           /\ ~MatchedSleep
           /\ \/ ev.chat_id > 0
              \/ ev.reply_to_bot
              \/ HasMention[ev.text]
              \/ MatchedWake
           /\ ev.rate = "allowed"
           /\ RecentCount(Get(ev.before.tracker, ev.chat_id, <<>>), now) < RateLimit
           /\ sleeping_chats = ev.before.sleeping
           /\ DOMAIN request_tracker = DOMAIN ev.before.tracker \cup {ev.chat_id}
           /\ \A c \in DOMAIN request_tracker :
                  request_tracker[c]
                      = IF c = ev.chat_id
                        THEN Granted(Get(ev.before.tracker, c, <<>>), now)
                        ELSE ev.before.tracker[c]

\* A reply has just been generated for the last free slot of a chat's
\* window, while the other chat, its window full, was asleep.
C16_Witness ==
    /\ Handled /\ ev.requests # <<>>
    /\ Len(request_tracker[ev.chat_id]) = RateLimit
    /\ \E c \in Chats \ {ev.chat_id} :
          /\ Len(request_tracker[c]) = RateLimit
          /\ Get(sleeping_chats, c, FALSE)

\* The completion interface has been called for the last update.
Prompted == Handled /\ ev.requests # <<>>

\* The prompt of the first call, and the list it was cut from: the system
\* instruction, the context read from the store, the new user message.
SentPrompt == ev.requests[1].messages

WholePrompt ==
    <<[role |-> "system", content |-> SystemPrompt]>>
        \o ev.context
        \o <<[role |-> "user", content |-> ev.text]>>

\* C17: the prompt sent to the completion interface starts with the system
\* instruction, ends with the new user message and has at most 16 elements;
\* when system + context + new message are more than 16 elements, it is the
\* system instruction followed by exactly the last 15 of them, in their
\* order.
C17_PromptCapped ==
    Prompted
        => /\ SentPrompt[1] = [role |-> "system", content |-> SystemPrompt]
           /\ SentPrompt[Len(SentPrompt)] = [role |-> "user", content |-> ev.text]
           /\ Len(SentPrompt) <= PromptCap
           /\ Len(WholePrompt) > PromptCap
                => /\ Len(SentPrompt) = PromptCap
                   /\ \A i \in 2..PromptCap :
                          SentPrompt[i] = WholePrompt[Len(WholePrompt) - PromptCap + i]

\* A chat with 8 stored turns has just been answered: of the 18 elements
\* the prompt kept 16, the oldest turn dropped.
C17_Witness ==
    /\ Prompted
    /\ Len(ev.context) = 16
    /\ Len(WholePrompt) = 18
    /\ Len(SentPrompt) = PromptCap
    /\ SentPrompt[2].role = "user"
    /\ SentPrompt[PromptCap - 1] = [role |-> "assistant", content |-> "a8"]

\* The last update was a wake phrase and no sleep phrase for an Awake chat.
WakeWhileAwake == Handled /\ ~WasAsleep /\ MatchedWake /\ ~MatchedSleep

\* The last update was handed to the rate limiter.
RateChecked == ev.rate \in {"allowed", "denied"}

\* C18: whenever a message matching a wake phrase and no sleep phrase is
\* handled for an Awake chat, no acknowledgment is sent and no sleep flag
\* changes; an Awake group chat hands a message without sleep phrase to the
\* rate limiter iff it replies to the bot, contains its handle or matches a
\* wake phrase; so a wake phrase without mention or reply is handed to the
\* rate limiter and, once granted, answered by the model.
C18_WakeWhileAwakeIsAnswered ==
    /\ WakeWhileAwake
          => /\ \A i \in 1..Len(ev.sent) : ev.sent[i].text # WakeAck
             /\ sleeping_chats = ev.before.sleeping
    /\ (Handled /\ ev.chat_id < 0 /\ ~WasAsleep /\ ~MatchedSleep)
          => (RateChecked <=> (ev.reply_to_bot \/ HasMention[ev.text] \/ MatchedWake))
    /\ (WakeWhileAwake /\ ev.chat_id < 0)
          => /\ RateChecked
             /\ ev.rate = "allowed"
                  => /\ ev.requests # <<>>
                     /\ ev.sent = <<Reply(ev.chat_id, ev.response, "Markdown")>>

\* An Awake group chat has just had "Hello", sent without mention and not
\* as a reply, answered by the model.
C18_Witness ==
    /\ WakeWhileAwake
    /\ ev.chat_id < 0
    /\ ~ev.reply_to_bot /\ ~HasMention[ev.text]
    /\ ev.requests # <<>>
    /\ ev.sent = <<Reply(ev.chat_id, ev.response, "Markdown")>>

\* The response path in the order of handle_message: the rate check that
\* returned true, the typing action, generate_response, save_conversation,
\* reply_text.
ResponsePath ==
    <<"rate:allowed", "typing", "generate", "store", "send:reply">>

\* What a call off the response path does: nothing, the acknowledgment of a
\* wake phrase, or the notice of a denied request.
OtherPaths ==
    {<<>>, <<"send:ack">>, <<"rate:denied">>, <<"rate:denied", "send:notice">>}

IsPrefix(s, t) == Len(s) <= Len(t) /\ s = SubSeq(t, 1, Len(s))

\* The turn of a call, as save_conversation writes it.
SavedTurn(rows, chat_id, text, response) ==
    \E i \in 1..Len(rows) :
        /\ rows[i].chat_id = chat_id
        /\ rows[i].message = text
        /\ rows[i].response = response

\* C19: what a handle_message call has done is at every step a prefix of
\* rate check (true), orchestrator call, store write, send, so each happens
\* at most once and in that order, or it is one of the paths without
\* orchestrator and store write; a call waiting to send its reply has had its
\* turn written, a reply that is sent is the response of a written turn, and
\* the store changes only in the step that follows the orchestrator call of a
\* granted request, by that one turn.
C19_ResponsePathOrder ==
    /\ \A s \in Busy(flight) :
          /\ IsPrefix(flight[s].steps, ResponsePath) \/ flight[s].steps \in OtherPaths
          /\ flight[s].pc = "reply"
                => /\ flight[s].steps = SubSeq(ResponsePath, 1, 4)
                   /\ SavedTurn(conversations, flight[s].chat_id,
                                flight[s].text, flight[s].response)
          /\ flight[s].pc \in {"completion", "retry"}
                => flight[s].steps = SubSeq(ResponsePath, 1, 3)
    /\ Stepped
          => /\ IsPrefix(ev.steps, ResponsePath) \/ ev.steps \in OtherPaths
             /\ (ev.sent # <<>> /\ ev.sent[1].parse_mode = "Markdown")
                   => /\ ev.steps = ResponsePath
                      /\ SavedTurn(conversations, ev.chat_id, ev.text,
                                   ev.sent[1].text)
             /\ conversations # ev.before.rows
                   => /\ ev.steps = SubSeq(ResponsePath, 1, 4)
                      /\ ~ev.store_error
                      /\ Len(conversations) = Len(ev.before.rows) + 1
                      /\ SubSeq(conversations, 1, Len(ev.before.rows)) = ev.before.rows
             /\ (ev.steps # <<>> /\ ev.steps[1] = "rate:denied")
                   => conversations = ev.before.rows

\* A reply has just been sent by a call that went through the whole
\* response path, and its turn is in the store.
C19_Witness ==
    /\ Stepped
    /\ ev.steps = ResponsePath
    /\ ev.sent # <<>>
    /\ SavedTurn(conversations, ev.chat_id, ev.text, ev.sent[1].text)

\* Chat c has the same entry in the per-chat maps d1 and d2, or none in
\* either.
SameEntry(d1, d2, c) ==
    /\ c \in DOMAIN d1 <=> c \in DOMAIN d2
    /\ c \in DOMAIN d1 => d1[c] = d2[c]

\* C20: every step of a handle_message call of chat A (the run to its first
\* await, which holds the sleep branch, the wake branch, the returns of an
\* ignored message and the rate limiter, and each continuation after an
\* await) leaves the sleep flag and the rate window of every other chat B as
\* it found them, calls of other chats being suspended meanwhile or not.
C20_OtherChatsUntouched ==
    Stepped
        => \A b \in Chats \ {ev.chat_id} :
              /\ SameEntry(sleeping_chats, ev.before.sleeping, b)
              /\ SameEntry(request_tracker, ev.before.tracker, b)

\* A sleep phrase of one chat has just set that chat's flag while a call of
\* the other chat, which is Awake and has a request in its window, is
\* suspended in the completion interface.
C20_Witness ==
    /\ Stepped /\ ev.step = "dispatch"
    /\ IsSleepCommand[ev.text]
    /\ ~IsSleeping(ev.before.sleeping, ev.chat_id)
    /\ IsSleeping(sleeping_chats, ev.chat_id)
    /\ \E s \in Slots :
          /\ flight[s].pc = "completion"
          /\ flight[s].chat_id # ev.chat_id
          /\ ~IsSleeping(sleeping_chats, flight[s].chat_id)
          /\ Len(request_tracker[flight[s].chat_id]) = RateLimit

\* The handler sent nothing and ran nothing downstream of the gate.
Silent ==
    /\ ev.sent = <<>>
    /\ ~ev.typing
    /\ ev.rate = "skipped"
    /\ ev.requests = <<>>
    /\ ~ev.saved

\* C21: whenever a message matching both a sleep phrase and a wake phrase is
\* handled, the chat is Asleep afterwards and nothing was sent, whether it was
\* Awake or Asleep before; and whenever a message matching a sleep phrase is
\* handled for a chat that is already Asleep, the chat is still Asleep and
\* nothing was sent.  Only the flag of that chat is written.
C21_SleepBeforeWake ==
    /\ (Handled /\ MatchedSleep /\ MatchedWake)
          => /\ ev.chat_id \in DOMAIN sleeping_chats
             /\ sleeping_chats[ev.chat_id] = TRUE
             /\ Silent
    /\ (Handled /\ MatchedSleep /\ WasAsleep)
          => /\ sleeping_chats = ev.before.sleeping
             /\ IsAsleep
             /\ Silent

\* An Asleep chat has just received "Thanks Riri", which matches both
\* phrase sets, and is still Asleep without having been acknowledged.
C21_Witness ==
    /\ Handled /\ MatchedSleep /\ MatchedWake
    /\ WasAsleep
    /\ IsAsleep
    /\ ev.sent = <<>>

\* The last update was one to respond to, for a chat whose window held the
\* limit of recent requests.
RespondAtLimit ==
    /\ Handled
    /\ ~WasAsleep
    /\ ~MatchedSleep
    /\ ShouldRespond(ev.chat_id, LastMessage)
    /\ RecentCount(Get(ev.before.tracker, ev.chat_id, <<>>), now) >= RateLimit

\* C22: whenever handle_message decides to respond (Awake chat, no sleep
\* phrase, should_respond true) and the window of the chat holds 100 recent
\* requests, check_rate_limit returns false and the fixed notice is the only
\* text sent: no typing action, no call of the completion interface, no row
\* written, and the sleep flags as they were.  A denial has no other cause.
C22_DenialSendsNoticeOnly ==
    /\ RespondAtLimit
          => /\ ev.rate = "denied"
             /\ ev.sent = <<Reply(ev.chat_id, RateNotice, "")>>
             /\ ~ev.typing
             /\ ev.requests = <<>>
             /\ ~ev.saved
             /\ conversations = ev.before.rows
             /\ sleeping_chats = ev.before.sleeping
    /\ (Handled /\ ev.rate = "denied") => RespondAtLimit

\* A group chat whose earlier turn is in the store has just been denied a
\* wake phrase sent without mention: the notice went out and the store
\* holds that one turn only.
C22_Witness ==
    /\ RespondAtLimit
    /\ ev.chat_id < 0
    /\ MatchedWake /\ ~HasMention[ev.text] /\ ~ev.reply_to_bot
    /\ ev.sent = <<Reply(ev.chat_id, RateNotice, "")>>
    /\ Len(conversations) = 1
    /\ conversations[1].chat_id = ev.chat_id

=============================================================================
